---------------------------- MODULE Spec2Model ----------------------------
(***************************************************************************)
(* Model of library/ceph_check_role.py: the fact summarizer                *)
(* (get_free_disks, get_network_info, summarize), the rule engine          *)
(* (class Checker) and the driver run_module.                              *)
(*                                                                         *)
(* Conventions                                                              *)
(*  - A Python string on which the code does character work (startswith,   *)
(*    split, upper, replace, int) is a sequence of one-character strings.   *)
(*    Strings that are only compared for equality are TLA+ strings.         *)
(*  - An optional dictionary entry (d.get(k, default)) is a sequence of     *)
(*    length 0 (absent) or 1 (present).                                     *)
(*  - CPU amounts are counted in half cores, so that the 0.5 core of an    *)
(*    OSD is the integer 1; byte counts of statvfs are counted in KiB.      *)
(***************************************************************************)
EXTENDS Integers, Sequences, FiniteSets, TLC

VARIABLES
    ansible_facts,    \* fact_collector.collect(): the host facts
    role,             \* module.params['role'], comma separated
    mode,             \* module.params['mode']
    deployment_type,  \* module.params['deployment']
    summary,          \* summarize(ansible_facts)
    roles,            \* Checker.roles
    osd_count,        \* Checker.osd_count
    osd_media,        \* Checker.osd_media
    net_max,          \* Checker.net_max
    status_msgs,      \* Checker.status_msgs
    status_checks,    \* Checker.status_checks
    next_check,       \* position of analyse() in check_methods
    pc,               \* position of run_module
    exception,        \* the exception that ended run_module, or "none"
    result            \* the data handed to module.exit_json

vars == <<ansible_facts, role, mode, deployment_type, summary, roles,
          osd_count, osd_media, net_max, status_msgs, status_checks,
          next_check, pc, exception, result>>

-----------------------------------------------------------------------------
(* Strings as sequences of characters *)

\* the characters used, in ASCII order
Ascii ==
    <<"-", ".", "/", "0", "1", "2", "3", "4", "5", "6", "7", "8", "9",
      "A", "B", "C", "D", "E", "F", "G", "H", "I", "J", "K", "L", "M",
      "N", "O", "P", "Q", "R", "S", "T", "U", "V", "W", "X", "Y", "Z", "_",
      "a", "b", "c", "d", "e", "f", "g", "h", "i", "j", "k", "l", "m",
      "n", "o", "p", "q", "r", "s", "t", "u", "v", "w", "x", "y", "z">>

Ord(c) == CHOOSE i \in 1..Len(Ascii) : Ascii[i] = c

LowerCase == SubSeq(Ascii, Ord("a"), Ord("z"))
UpperCase == SubSeq(Ascii, Ord("A"), Ord("Z"))

\* str.upper()
Upper(s) ==
    [i \in 1..Len(s) |->
        IF \E k \in 1..Len(LowerCase) : LowerCase[k] = s[i]
        THEN UpperCase[CHOOSE k \in 1..Len(LowerCase) : LowerCase[k] = s[i]]
        ELSE s[i]]

\* str.startswith(p)
StartsWith(s, p) == Len(s) >= Len(p) /\ SubSeq(s, 1, Len(p)) = p

\* str.replace(a, b) for one-character a and b
Replace(s, a, b) == [i \in 1..Len(s) |-> IF s[i] = a THEN b ELSE s[i]]

\* str.split(sep) for a one-character sep
RECURSIVE Split(_, _)
Split(s, sep) ==
    IF \A i \in 1..Len(s) : s[i] # sep
    THEN <<s>>
    ELSE LET i == CHOOSE k \in 1..Len(s) :
                      s[k] = sep /\ \A j \in 1..(k - 1) : s[j] # sep
         IN  <<SubSeq(s, 1, i - 1)>> \o Split(SubSeq(s, i + 1, Len(s)), sep)

Digits == SubSeq(Ascii, Ord("0"), Ord("9"))

\* int(s) for a string of decimal digits
RECURSIVE ParseInt(_)
ParseInt(s) ==
    IF Len(s) = 0 THEN 0
    ELSE 10 * ParseInt(SubSeq(s, 1, Len(s) - 1))
         + (CHOOSE d \in 0..9 : Digits[d + 1] = s[Len(s)])

\* s < t in Python's string order
RECURSIVE StrLess(_, _)
StrLess(s, t) ==
    IF Len(t) = 0 THEN FALSE
    ELSE IF Len(s) = 0 THEN TRUE
    ELSE IF s[1] # t[1] THEN Ord(s[1]) < Ord(t[1])
    ELSE StrLess(Tail(s), Tail(t))

\* bin(n).count('1')
RECURSIVE BitCount(_)
BitCount(n) == IF n = 0 THEN 0 ELSE (n % 2) + BitCount(n \div 2)

RECURSIVE SumSeq(_)
SumSeq(s) == IF Len(s) = 0 THEN 0 ELSE s[1] + SumSeq(Tail(s))

Range(s) == {s[i] : i \in 1..Len(s)}

-----------------------------------------------------------------------------
(* netmask_to_cidr *)

netmask_to_cidr(netmask) ==
    LET quads == Split(netmask, ".")
    IN  SumSeq([i \in 1..Len(quads) |-> BitCount(ParseInt(quads[i]))])

-----------------------------------------------------------------------------
(* get_free_disks *)

\* DiskIsFree with the USB test done without upper()
DiskIsFree_CaseSensitive(disk_id, disk, rotational) ==
    IF disk.removable = "1" THEN FALSE
    ELSE IF StartsWith(disk_id, <<"d", "m", "-">>) THEN FALSE
    ELSE IF disk.partitions # {} THEN FALSE
    ELSE IF disk.holders # <<>> THEN FALSE
    ELSE IF disk.links.masters # <<>> THEN FALSE
    ELSE IF StartsWith(disk.host, <<"U", "S", "B">>) THEN FALSE
    ELSE ParseInt(disk.rotational) = rotational /\ ~(disk.partitions # {})

\* the tests of one pass of the loop, up to the statement that adds the disk
DiskIsFree(disk_id, disk, rotational) ==
    IF disk.removable = "1" THEN FALSE
    ELSE IF StartsWith(disk_id, <<"d", "m", "-">>) THEN FALSE
    ELSE IF disk.partitions # {} THEN FALSE
    ELSE IF disk.holders # <<>> THEN FALSE
    ELSE IF disk.links.masters # <<>> THEN FALSE
    ELSE IF StartsWith(Upper(disk.host), <<"U", "S", "B">>) THEN FALSE
    ELSE ParseInt(disk.rotational) = rotational /\ ~(disk.partitions # {})

\* sorted(keys): the keys in Python's string order
RECURSIVE SortedKeys(_)
SortedKeys(keys) ==
    IF keys = {} THEN <<>>
    ELSE LET least == CHOOSE k \in keys : \A o \in keys \ {k} : StrLess(k, o)
         IN  <<least>> \o SortedKeys(keys \ {least})

\* the OrderedDict returned, as the sequence of its (key, value) items
get_free_disks(devices, rotational) ==
    LET free == {d \in DOMAIN devices : DiskIsFree(d, devices[d], rotational)}
        keys == SortedKeys(free)
    IN  [i \in 1..Len(keys) |-> <<keys[i], devices[keys[i]]>>]

-----------------------------------------------------------------------------
(* get_network_info *)

valid_nics == {"ether", "bonding", "bridge", "infiniband"}

nic_blacklist == <<"l", "o">>

\* DictPut that keeps the entry of a key that is already there
DictPut_KeepFirst(d, key, value) ==
    IF key \in DOMAIN d THEN d
    ELSE [k \in (DOMAIN d) \cup {key} |-> IF k = key THEN value ELSE d[k]]

\* d with the entry key |-> value added or replaced
DictPut(d, key, value) ==
    [k \in (DOMAIN d) \cup {key} |-> IF k = key THEN value ELSE d[k]]

\* the members of a bridge that are looked up: names without the vnet
\* prefix, with '-' replaced by '_'
BridgeDevs(members) ==
    LET kept == SelectSeq(members,
                          LAMBDA d : ~StartsWith(d, <<"v", "n", "e", "t">>))
    IN  [i \in 1..Len(kept) |-> Replace(kept[i], "-", "_")]

\* what the loop over the members of a bridge adds to count
BridgeMemberCount(nic) ==
    IF nic.type = "bonding" THEN Len(nic.slaves)
    ELSE IF nic.type = "bridge" THEN Len(nic.interfaces)
    ELSE IF nic.type = "ether" THEN 1
    ELSE 0

\* what the loop over the members of a bridge adds to speed
BridgeMemberSpeed(nic) ==
    IF nic.type = "bonding" THEN nic.speed[1] ELSE 0

\* .get('speed', 0)
GetSpeed(nic) == IF nic.speed = <<>> THEN 0 ELSE nic.speed[1]

\* devs, speed and count of one interface that has an ipv4 entry
NicAggregate(facts, nic_id) ==
    LET nic == facts.nics[nic_id]
    IN  IF nic.type \in {"ether", "infiniband"}
        THEN [devs |-> <<nic_id>>, speed |-> GetSpeed(nic), count |-> 1]
        ELSE IF nic.type = "bridge"
        THEN LET devs == BridgeDevs(nic.interfaces)
             IN  [devs  |-> devs,
                  speed |-> SumSeq([i \in 1..Len(devs) |->
                               BridgeMemberSpeed(facts.nics[devs[i]])]),
                  count |-> SumSeq([i \in 1..Len(devs) |->
                               BridgeMemberCount(facts.nics[devs[i]])])]
        ELSE LET devs == [i \in 1..Len(nic.slaves) |->
                             Replace(nic.slaves[i], "-", "_")]
             IN  [devs |-> devs, speed |-> GetSpeed(nic), count |-> Len(devs)]

\* "{} ({}x{}g)".format(net_str, count, speed / (count * 1000)), kept as
\* its arguments with the quotient as dividend and divisor; else net_str
NicDesc(net_str, speed, count) ==
    IF speed # 0 /\ count # 0
    THEN <<net_str, count, speed, count * 1000>>
    ELSE <<net_str>>

\* one pass of the loop over nics; acc holds subnets and subnet_details
NicStep(facts, nic_id, acc) ==
    IF nic_id \notin DOMAIN facts.nics THEN acc
    ELSE IF facts.nics[nic_id].type \notin valid_nics THEN acc
    ELSE IF facts.nics[nic_id].ipv4 = <<>> THEN acc
    ELSE LET nic_config == facts.nics[nic_id].ipv4[1]
             \* '{}/{}'.format(network, cidr), kept as the pair
             net_str == <<nic_config.network,
                          netmask_to_cidr(nic_config.netmask)>>
             agg     == NicAggregate(facts, nic_id)
         IN  [subnets |-> acc.subnets \cup {net_str},
              subnet_details |->
                  DictPut(acc.subnet_details, net_str,
                          [devices |-> agg.devs,
                           speed   |-> agg.speed,
                           count   |-> agg.count,
                           desc    |-> NicDesc(net_str, agg.speed, agg.count),
                           addr    |-> nic_config.address])]

RECURSIVE NicLoop(_, _, _)
NicLoop(facts, nics, acc) ==
    IF Len(nics) = 0 THEN acc
    ELSE NicLoop(facts, Tail(nics), NicStep(facts, nics[1], acc))

\* list(subnets): the members of the set, each once, in some order
RECURSIVE ListOfSet(_)
ListOfSet(set) ==
    IF set = {} THEN <<>>
    ELSE LET x == CHOOSE y \in set : TRUE
         IN  <<x>> \o ListOfSet(set \ {x})

get_network_info(facts) ==
    LET nics == SelectSeq(facts.interfaces,
                          LAMBDA nic : ~StartsWith(nic, nic_blacklist))
        acc  == NicLoop(facts, nics, [subnets |-> {}, subnet_details |-> <<>>])
    IN  [subnets |-> ListOfSet(acc.subnets),
         subnet_details |-> acc.subnet_details]

-----------------------------------------------------------------------------
(* summarize; cpu_type, capacity, vendor and model are not read by the      *)
(* Checker and are left out                                                 *)

summarize(facts) ==
    LET hdd == get_free_disks(facts.devices, 1)
        ssd == get_free_disks(facts.devices, 0)
    IN  [cpu_core_count |-> facts.processor_count
                            * facts.processor_threads_per_core
                            * facts.processor_cores,
         ram_mb    |-> facts.memory_mb,
         kernel    |-> facts.kernel,
         distribution |-> facts.distribution,
         distribution_version |-> facts.distribution_version,
         hdd       |-> hdd,
         ssd       |-> ssd,
         hdd_count |-> Len(hdd),
         ssd_count |-> Len(ssd),
         network   |-> get_network_info(facts)]

-----------------------------------------------------------------------------
(* class Checker: tables *)

osd_bandwidth == [hdd |-> 1000, ssd |-> 5000]

\* cpu in half cores
reqs ==
    [os       |-> [cpu |-> 4, ram |-> 4096],
     osds     |-> [cpu |-> 1, ram |-> 3072],
     mons     |-> [cpu |-> 4, ram |-> 4096],
     mdss     |-> [cpu |-> 4, ram |-> 4096],
     rgws     |-> [cpu |-> 8, ram |-> 2048],
     iscsigws |-> [cpu |-> 8, ram |-> 16384]]

\* fs_threshold with the dev finding raised as critical
fs_threshold_DevCritical ==
    [dev  |-> [free |-> 10, severity |-> "critical", text |-> "10"],
     prod |-> [free |-> 30, severity |-> "error",    text |-> "30"]]

fs_threshold ==
    [dev  |-> [free |-> 10, severity |-> "warning", text |-> "10"],
     prod |-> [free |-> 30, severity |-> "error",   text |-> "30"]]

\* 1024**3 bytes, in KiB
GiB == 1048576

\* the _check methods in the order of dir(self)
check_methods ==
    <<"_check_collocation", "_check_cpu", "_check_iscsi",
      "_check_mon_freespace", "_check_network", "_check_osd",
      "_check_ram", "_check_rgw">>

\* the name each check hands to _add_check
check_names ==
    [_check_collocation   |-> "_check_collocation",
     _check_cpu           |-> "_check_cpu",
     _check_iscsi         |-> "check iscsi gateway pre-reqs",
     _check_mon_freespace |-> "check mon freespace",
     _check_network       |-> "_check_network",
     _check_osd           |-> "_check_osd",
     _check_ram           |-> "_check_ram",
     _check_rgw           |-> "_check_rgw"]

-----------------------------------------------------------------------------
(* class Checker: messages and state *)

\* '{}:{}'.format(severity, description): the message is kept as the
\* severity, the fixed text of the description and the values formatted
\* into it
Message(severity, text, arg) ==
    [severity |-> severity, text |-> text, arg |-> arg]

\* msg.startswith(prefix) for a prefix that is a severity
MsgStartsWith(msg, prefixes) == msg.severity \in prefixes

\* StateOf with the dev branch testing the prefixes of the prod branch
StateOf_DevAsProd(m, msgs) ==
    IF \E i \in 1..Len(msgs) : MsgStartsWith(msgs[i], {"critical", "error"})
    THEN "NOTOK" ELSE "OK"

\* Checker.state
StateOf(m, msgs) ==
    IF m = "dev"
    THEN IF \E i \in 1..Len(msgs) : MsgStartsWith(msgs[i], {"critical"})
         THEN "NOTOK" ELSE "OK"
    ELSE IF \E i \in 1..Len(msgs) :
                MsgStartsWith(msgs[i], {"critical", "error"})
         THEN "NOTOK" ELSE "OK"

\* the descriptions in Python's string order ('#' < upper case < lower case)
TextOrder ==
    <<"#CPU's too low",
      "Freespace on /var/lib is too low (<{}GB)",
      "Network bandwidth low for rgw role",
      "Network bandwith low for the number of potential OSDs",
      "OSD role without any free disks",
      "RAM too low",
      "Requested roles ({}) may not coexist",
      "Too many roles for RPM deployment mode",
      "incompatible kernel version for iSCSI">>

SeverityOrder == <<"critical", "error", "warning">>

IndexIn(seq, x) == CHOOSE i \in 1..Len(seq) : seq[i] = x

\* m1 <= m2 in Python's string order; two messages of one run that agree
\* on severity and text agree on the formatted values
MsgLeq(m1, m2) ==
    \/ IndexIn(SeverityOrder, m1.severity) < IndexIn(SeverityOrder, m2.severity)
    \/ /\ m1.severity = m2.severity
       /\ IndexIn(TextOrder, m1.text) <= IndexIn(TextOrder, m2.text)

\* sorted(status_msgs)
RECURSIVE SortedMsgs(_)
SortedMsgs(msgs) ==
    IF Len(msgs) = 0 THEN <<>>
    ELSE LET i == CHOOSE k \in 1..Len(msgs) :
                      /\ \A j \in 1..Len(msgs) : MsgLeq(msgs[k], msgs[j])
                      /\ \A j \in 1..(k - 1) : ~MsgLeq(msgs[j], msgs[k])
             rest == [j \in 1..(Len(msgs) - 1) |->
                         IF j < i THEN msgs[j] ELSE msgs[j + 1]]
         IN  <<msgs[i]>> \o SortedMsgs(rest)

-----------------------------------------------------------------------------
(* class Checker: the checks, each as the messages it hands to _add_problem *)

collocation_problems(rs, deployment, m) ==
    LET severity  == IF m = "dev" THEN "warning" ELSE "error"
        num_roles == Len(rs)
    IN  IF num_roles > 1
        THEN IF deployment = "container" THEN <<>>
             ELSE IF num_roles > 2
             THEN <<Message(severity,
                            "Too many roles for RPM deployment mode", <<>>)>>
             ELSE IF \A i \in 1..Len(rs) : rs[i] \in {"osds", "rgws"}
             THEN <<>>
             ELSE <<Message(severity,
                            "Requested roles ({}) may not coexist", rs)>>
        ELSE <<>>

\* osd_problems with the finding graded error
osd_problems_Error(rs, count) ==
    IF (\E i \in 1..Len(rs) : rs[i] = "osds") /\ count = 0
    THEN <<Message("error", "OSD role without any free disks", <<>>)>>
    ELSE <<>>

osd_problems(rs, count) ==
    IF (\E i \in 1..Len(rs) : rs[i] = "osds") /\ count = 0
    THEN <<Message("critical", "OSD role without any free disks", <<>>)>>
    ELSE <<>>

network_problems(rs, count, media, netmax) ==
    IF ~(\E i \in 1..Len(rs) : rs[i] = "osds") THEN <<>>
    ELSE LET optimum_bandwidth == count * osd_bandwidth[media]
         IN  IF netmax < optimum_bandwidth
             THEN <<Message("warning",
                     "Network bandwith low for the number of potential OSDs",
                     <<>>)>>
             ELSE <<>>

\* Available with the cost of the osds role not multiplied by the count
RECURSIVE Available_Unscaled(_, _, _, _)
Available_Unscaled(available, rs, count, resource) ==
    IF Len(rs) = 0 THEN available
    ELSE Available_Unscaled(available - reqs[rs[1]][resource],
                            Tail(rs), count, resource)

\* the loop of _check_cpu and _check_ram over the roles
RECURSIVE Available(_, _, _, _)
Available(available, rs, count, resource) ==
    IF Len(rs) = 0 THEN available
    ELSE Available(IF rs[1] = "osds"
                   THEN available - (count * reqs[rs[1]][resource])
                   ELSE available - reqs[rs[1]][resource],
                   Tail(rs), count, resource)

cpu_problems(rs, count, host_details) ==
    LET available_cpu ==
            Available(2 * host_details.cpu_core_count, rs, count, "cpu")
    IN  IF available_cpu < reqs["os"]["cpu"]
        THEN <<Message("error", "#CPU's too low", <<>>)>>
        ELSE <<>>

ram_problems(rs, count, host_details) ==
    LET available_ram == Available(host_details.ram_mb, rs, count, "ram")
    IN  IF available_ram < reqs["os"]["ram"]
        THEN <<Message("error", "RAM too low", <<>>)>>
        ELSE <<>>

rgw_problems(rs, netmax) ==
    IF ~(\E i \in 1..Len(rs) : rs[i] = "rgws") THEN <<>>
    ELSE IF netmax < 10000
    THEN <<Message("warning", "Network bandwidth low for rgw role", <<>>)>>
    ELSE <<>>

\* var_lib is the result of os.statvfs('/var/lib')
mon_freespace_problems(m, var_lib) ==
    LET free_bytes == var_lib.f_bsize * var_lib.f_bfree
    IN  IF (free_bytes \div GiB) < fs_threshold[m]["free"]
        THEN <<Message(fs_threshold[m]["severity"],
                       "Freespace on /var/lib is too low (<{}GB)",
                       <<fs_threshold[m]["text"]>>)>>
        ELSE <<>>

\* iscsi_problems with RHEL 7.5 accepted
iscsi_problems_From75(rs, host_details) ==
    IF \E i \in 1..Len(rs) : rs[i] = "iscsigws"
    THEN IF host_details.distribution = "RedHat"
         THEN LET parts == Split(host_details.distribution_version, ".")
                  version_int == (ParseInt(parts[1]) * 10)
                                 + (ParseInt(parts[2]) * 1)
              IN  IF version_int >= 75 THEN <<>>
                  ELSE <<Message("critical",
                           "incompatible kernel version for iSCSI", <<>>)>>
         ELSE LET parts == SubSeq(Split(host_details.kernel, "."), 1, 2)
                  kernel_int == (ParseInt(parts[1]) * 100)
                                + ParseInt(parts[2])
              IN  IF kernel_int >= 416 THEN <<>>
                  ELSE <<Message("critical",
                           "incompatible kernel version for iSCSI", <<>>)>>
    ELSE <<>>

iscsi_problems(rs, host_details) ==
    IF \E i \in 1..Len(rs) : rs[i] = "iscsigws"
    THEN IF host_details.distribution = "RedHat"
         THEN LET parts == Split(host_details.distribution_version, ".")
                  version_int == (ParseInt(parts[1]) * 10)
                                 + (ParseInt(parts[2]) * 1)
              IN  IF version_int > 80 THEN <<>>
                  ELSE IF version_int > 75 THEN <<>>
                  ELSE <<Message("critical",
                           "incompatible kernel version for iSCSI", <<>>)>>
         ELSE LET parts == SubSeq(Split(host_details.kernel, "."), 1, 2)
                  kernel_int == (ParseInt(parts[1]) * 100)
                                + ParseInt(parts[2])
              IN  IF kernel_int >= 416 THEN <<>>
                  ELSE <<Message("critical",
                           "incompatible kernel version for iSCSI", <<>>)>>
    ELSE <<>>

-----------------------------------------------------------------------------
(* Checker.__init__ *)

OsdCount(hdd, ssd) == IF Len(hdd) >= Len(ssd) THEN Len(hdd) ELSE Len(ssd)

\* OsdMedia with a tie going to hdd
OsdMedia_TieHdd(hdd, ssd) == IF Len(hdd) >= Len(ssd) THEN "hdd" ELSE "ssd"

OsdMedia(hdd, ssd) == IF Len(hdd) > Len(ssd) THEN "hdd" ELSE "ssd"

\* max([subnet_data[subnet]['speed'] for subnet in subnet_data]), for a
\* subnet_data that is not empty
NetMax(subnet_data) ==
    CHOOSE s \in {subnet_data[n].speed : n \in DOMAIN subnet_data} :
        \A n \in DOMAIN subnet_data : subnet_data[n].speed <= s

\* roles.split(','): the role parameter is a sequence of tokens, each a
\* role name or a comma
RoleList(r) ==
    LET pieces == Split(r, ",")
    IN  [i \in 1..Len(pieces) |->
            IF Len(pieces[i]) = 0 THEN "" ELSE pieces[i][1]]

-----------------------------------------------------------------------------
(* The inputs *)

MaxRoles == 3
MaxDisks == 2
MaxNics  == 2
\* the longest role list of the hosts of InitOsd
MaxOsdRoles == 2

valid_roles == {"mons", "mdss", "osds", "rgws", "iscsigws"}

\* ','.join(rs)
RECURSIVE Join(_)
Join(rs) ==
    IF Len(rs) = 0 THEN <<>>
    ELSE IF Len(rs) = 1 THEN <<rs[1]>>
    ELSE <<rs[1], ",">> \o Join(Tail(rs))

RoleParams(maxlen) ==
    {Join(rs) : rs \in UNION {[1..n -> valid_roles] : n \in 1..maxlen}}

Modes == {"prod", "dev"}

Deployments == {"container", "rpm"}

Sata == <<"S", "A", "T", "A">>

\* the disk the operating system is installed on
SystemDisk ==
    [removable |-> "0", partitions |-> {"sda1", "sda2"}, holders |-> <<>>,
     links |-> [masters |-> <<>>], host |-> Sata, rotational |-> <<"1">>]

UnusedDisk(rotational) ==
    [removable |-> "0", partitions |-> {}, holders |-> <<>>,
     links |-> [masters |-> <<>>], host |-> Sata, rotational |-> rotational]

HddName(i) == <<"s", "d", LowerCase[i + 1]>>
SsdName(i) == <<"n", "v", "m", "e", Digits[i]>>

\* sda with partitions, h unused rotating disks and s unused flash disks
PlainDevices(h, s) ==
    [d \in {<<"s", "d", "a">>} \cup {HddName(i) : i \in 1..h}
                               \cup {SsdName(i) : i \in 1..s} |->
        IF d = <<"s", "d", "a">> THEN SystemDisk
        ELSE IF d \in {HddName(i) : i \in 1..h} THEN UnusedDisk(<<"1">>)
        ELSE UnusedDisk(<<"0">>)]

Lo == <<"l", "o">>
EthName(i) == <<"e", "t", "h", Digits[i]>>

Quad(a, b, c, d) == a \o <<".">> \o b \o <<".">> \o c \o <<".">> \o d

Mask24 == Quad(<<"2", "5", "5">>, <<"2", "5", "5">>, <<"2", "5", "5">>, <<"0">>)
Mask8  == Quad(<<"2", "5", "5">>, <<"0">>, <<"0">>, <<"0">>)

Nic(type, ipv4, speed, slaves, interfaces) ==
    [type |-> type, ipv4 |-> ipv4, speed |-> speed, slaves |-> slaves,
     interfaces |-> interfaces]

Ipv4(address, network, netmask) ==
    [address |-> address, network |-> network, netmask |-> netmask]

Loopback ==
    Nic("loopback",
        <<Ipv4(Quad(<<"1", "2", "7">>, <<"0">>, <<"0">>, <<"1">>),
               Quad(<<"1", "2", "7">>, <<"0">>, <<"0">>, <<"0">>), Mask8)>>,
        <<>>, <<>>, <<>>)

\* ethernet interface i, on its own /24 subnet
EtherNic(i, speed) ==
    Nic("ether",
        <<Ipv4(Quad(<<"1", "0">>, <<"0">>, <<Digits[i + 1]>>, <<"5">>),
               Quad(<<"1", "0">>, <<"0">>, <<Digits[i + 1]>>, <<"0">>),
               Mask24)>>,
        <<speed>>, <<>>, <<>>)

\* lo and one ethernet interface for each entry of speeds
PlainInterfaces(speeds) == <<Lo>> \o [i \in 1..Len(speeds) |-> EthName(i)]

PlainNics(speeds) ==
    [n \in {Lo} \cup {EthName(i) : i \in 1..Len(speeds)} |->
        IF n = Lo THEN Loopback
        ELSE LET i == CHOOSE k \in 1..Len(speeds) : EthName(k) = n
             IN  EtherNic(i, speeds[i])]

SpeedLists(maxlen) == UNION {[1..n -> {1000, 10000}] : n \in 0..maxlen}

\* the operating systems: distribution, distribution_version and kernel,
\* with the numbers the two version strings are written from
OsTable ==
    {[distribution |-> "RedHat", version |-> <<"7", ".", "4">>,
      kernel |-> <<"3", ".", "1", "0", ".", "0">>,
      v_major |-> 7, v_minor |-> 4, k_major |-> 3, k_minor |-> 10],
     [distribution |-> "RedHat", version |-> <<"7", ".", "5">>,
      kernel |-> <<"3", ".", "1", "0", ".", "0">>,
      v_major |-> 7, v_minor |-> 5, k_major |-> 3, k_minor |-> 10],
     [distribution |-> "RedHat", version |-> <<"7", ".", "6">>,
      kernel |-> <<"3", ".", "1", "0", ".", "0">>,
      v_major |-> 7, v_minor |-> 6, k_major |-> 3, k_minor |-> 10],
     [distribution |-> "RedHat", version |-> <<"8", ".", "0">>,
      kernel |-> <<"4", ".", "1", "8", ".", "0">>,
      v_major |-> 8, v_minor |-> 0, k_major |-> 4, k_minor |-> 18],
     [distribution |-> "RedHat", version |-> <<"8", ".", "1">>,
      kernel |-> <<"4", ".", "1", "8", ".", "0">>,
      v_major |-> 8, v_minor |-> 1, k_major |-> 4, k_minor |-> 18],
     [distribution |-> "CentOS", version |-> <<"7", ".", "6">>,
      kernel |-> <<"3", ".", "1", "0", ".", "0">>,
      v_major |-> 7, v_minor |-> 6, k_major |-> 3, k_minor |-> 10],
     [distribution |-> "Ubuntu", version |-> <<"1", "8", ".", "0", "4">>,
      kernel |-> <<"4", ".", "1", "5", ".", "0">>,
      v_major |-> 18, v_minor |-> 4, k_major |-> 4, k_minor |-> 15],
     [distribution |-> "Fedora", version |-> <<"2", "8", ".", "0">>,
      kernel |-> <<"4", ".", "1", "6", ".", "3">>,
      v_major |-> 28, v_minor |-> 0, k_major |-> 4, k_minor |-> 16],
     [distribution |-> "Ubuntu", version |-> <<"2", "0", ".", "0", "4">>,
      kernel |-> <<"5", ".", "4", ".", "0">>,
      v_major |-> 20, v_minor |-> 4, k_major |-> 5, k_minor |-> 4]}

\* processor_count, processor_threads_per_core, processor_cores
Processors == {<<1, 1, 1>>, <<4, 2, 1>>}

Facts(processors, memory, os, devices, interfaces, nics) ==
    [processor_count |-> processors[1],
     processor_threads_per_core |-> processors[2],
     processor_cores |-> processors[3],
     memory_mb |-> memory,
     kernel |-> os.kernel,
     distribution |-> os.distribution,
     distribution_version |-> os.version,
     devices |-> devices,
     interfaces |-> interfaces,
     nics |-> nics]

\* os.statvfs('/var/lib'): blocks of 4 KiB; 5, 10, 20, 30 and 40 GiB free
\* and one block less than 10 and than 30 GiB
StatvfsResults ==
    {[f_bsize |-> 4, f_bfree |-> n] :
        n \in {5 * 262144, 10 * 262144 - 1, 10 * 262144, 20 * 262144,
               30 * 262144 - 1, 30 * 262144, 40 * 262144}}

NotSet == <<>>

InitWith(role_params, modes, deployments, facts) ==
    /\ ansible_facts \in facts
    /\ role \in role_params
    /\ mode \in modes
    /\ deployment_type \in deployments
    /\ summary = NotSet
    /\ roles = NotSet
    /\ osd_count = 0
    /\ osd_media = ""
    /\ net_max = 0
    /\ status_msgs = <<>>
    /\ status_checks = <<>>
    /\ next_check = 0
    /\ pc = "summarize"
    /\ exception = "none"
    /\ result = NotSet

OsOf(distribution, major, minor) ==
    CHOOSE os \in OsTable : /\ os.distribution = distribution
                            /\ os.v_major = major
                            /\ os.v_minor = minor

\* <<processors, memory_mb>>: 1 core, 8 cores, 8 cores with little memory,
\* 16 cores
HostSizes ==
    {<<<<1, 1, 1>>, 16384>>, <<<<4, 2, 1>>, 16384>>, <<<<4, 2, 1>>, 2048>>}

\* hosts with no subnet, one subnet of unknown speed (-1), 1G or 10G
SpeedsOfSpec == {<<>>, <<-1>>, <<1000>>, <<10000>>}

\* every role list, mode and deployment, on a few RHEL 7.4 hosts
Init ==
    InitWith(RoleParams(MaxRoles), Modes, Deployments,
             {Facts(hs[1], hs[2], OsOf("RedHat", 7, 4), PlainDevices(h, 0),
                    PlainInterfaces(sp), PlainNics(sp)) :
                 hs \in HostSizes, h \in 0..1, sp \in SpeedsOfSpec})

\* every role list on hosts of several sizes and numbers of rotating disks
InitBudget ==
    InitWith(RoleParams(MaxRoles), Modes, {"container"},
             {Facts(hs[1], hs[2], OsOf("RedHat", 7, 4), PlainDevices(h, 0),
                    PlainInterfaces(sp), PlainNics(sp)) :
                 hs \in HostSizes \cup {<<<<4, 2, 2>>, 32768>>},
                 h \in 0..MaxDisks, sp \in {<<>>, <<1000>>}})

\* the role lists of one or two roles on hosts with every number of
\* rotating and flash disks and of subnets
InitOsd ==
    InitWith(RoleParams(MaxOsdRoles), {"prod"}, {"container"},
             {Facts(<<4, 2, 1>>, 16384, OsOf("RedHat", 7, 4),
                    PlainDevices(h, s), PlainInterfaces(sp), PlainNics(sp)) :
                 h \in 0..MaxDisks, s \in 0..MaxDisks,
                 sp \in SpeedLists(MaxNics)})

\* every role list on every operating system
InitIscsi ==
    InitWith(RoleParams(MaxRoles), Modes, {"container"},
             {Facts(<<4, 2, 1>>, 16384, os, PlainDevices(1, 0),
                    PlainInterfaces(sp), PlainNics(sp)) :
                 os \in OsTable, sp \in {<<>>, <<1000>>}})

\* the attributes of a disk: every combination of the tests of
\* get_free_disks, with a SATA, a USB and an unnamed controller
DiskAttributes ==
    [removable  : {"0", "1"},
     partitions : {{}, {"p1"}},
     holders    : {<<>>, <<"dm-0">>},
     links      : {[masters |-> <<>>], [masters |-> <<"md0">>]},
     host       : {Sata, <<"U", "s", "b">>, <<>>},
     rotational : {<<"0">>, <<"1">>}]

\* inventories of at most the two disks sdb and dm-0
Inventories ==
    UNION {[ids -> DiskAttributes] :
              ids \in SUBSET {<<"s", "d", "b">>, <<"d", "m", "-", "0">>}}

\* every inventory for the role osds on a host with one subnet; the
\* monitor role on hosts with and without a subnet
InitDisks ==
    \/ InitWith({Join(<<"osds">>)}, {"prod"}, {"container"},
                {Facts(<<4, 2, 1>>, 16384, OsOf("RedHat", 7, 4), devices,
                       PlainInterfaces(<<1000>>), PlainNics(<<1000>>)) :
                    devices \in Inventories})
    \/ InitWith({Join(<<"mons">>)}, {"prod"}, {"container"},
                {Facts(<<4, 2, 1>>, 16384, OsOf("RedHat", 7, 4),
                       PlainDevices(0, 0), PlainInterfaces(sp),
                       PlainNics(sp)) : sp \in {<<>>, <<1000>>}})

\* the subnets of the hosts of InitNet: 10.0.1.0/24 and 10.0.4.0/22
Mask22 == Quad(<<"2", "5", "5">>, <<"2", "5", "5">>, <<"2", "5", "2">>, <<"0">>)

NetA == [third |-> <<"1">>, netmask |-> Mask24]
NetB == [third |-> <<"4">>, netmask |-> Mask22]

\* no ipv4 entry, or the address 10.0.x.host on one of the two subnets
Ipv4Choices(host) ==
    {<<>>}
    \cup {<<Ipv4(Quad(<<"1", "0">>, <<"0">>, net.third, host),
                 Quad(<<"1", "0">>, <<"0">>, net.third, <<"0">>),
                 net.netmask)>> : net \in {NetA, NetB}}

Eth0  == <<"e", "t", "h", "0">>
Eth1  == <<"e", "t", "h", "1">>
Bond0 == <<"b", "o", "n", "d", "0">>
Bond1 == <<"b", "o", "n", "d", "1">>
Br0   == <<"b", "r", "0">>
Vnet0 == <<"v", "n", "e", "t", "0">>
\* the nested bridge is br-1 in the lists of interfaces and br_1 in the facts
BrDash1  == <<"b", "r", "-", "1">>
BrUnder1 == <<"b", "r", "_", "1">>

\* the member lists of br0: every choice among eth1, bond1, br-1 and vnet0
BridgeMembers ==
    {SelectSeq(<<Eth1, Bond1, BrDash1, Vnet0>>, LAMBDA n : n \in chosen) :
        chosen \in SUBSET {Eth1, Bond1, BrDash1, Vnet0}}

\* the orders in which eth0, bond0 and br0 are listed
NicOrders ==
    {order \in [1..3 -> {Eth0, Bond0, Br0}] :
        \A i, j \in 1..3 : order[i] = order[j] => i = j}

\* a host with the ethernet interface eth0, the bond bond0 and the bridge
\* br0, each with its ipv4 entry, and the members of br0
NetNics(ipv4_eth, ipv4_bond, ipv4_br, speed0, speed1, members) ==
    [n \in {Lo, Eth0, Bond0, Br0, Eth1, Bond1, BrUnder1, Vnet0} |->
        IF n = Lo THEN Loopback
        ELSE IF n = Eth0
        THEN Nic("ether", ipv4_eth, <<speed0>>, <<>>, <<>>)
        ELSE IF n = Bond0
        THEN Nic("bonding", ipv4_bond, <<20000>>,
                 <<<<"e", "t", "h", "2">>, <<"e", "t", "h", "-", "3">>>>,
                 <<>>)
        ELSE IF n = Br0
        THEN Nic("bridge", ipv4_br, <<>>, <<>>, members)
        ELSE IF n = Eth1
        THEN Nic("ether", <<>>, <<speed1>>, <<>>, <<>>)
        ELSE IF n = Bond1
        THEN Nic("bonding", <<>>, <<2000>>,
                 <<<<"e", "t", "h", "4">>, <<"e", "t", "h", "5">>>>, <<>>)
        ELSE IF n = BrUnder1
        THEN Nic("bridge", <<>>, <<>>, <<>>,
                 <<<<"e", "t", "h", "6">>, <<"v", "n", "e", "t", "1">>,
                   <<"e", "t", "h", "7">>>>)
        ELSE Nic("ether", <<>>, <<10>>, <<>>, <<>>)]

NetFacts ==
    {Facts(<<4, 2, 1>>, 16384, OsOf("RedHat", 7, 4), PlainDevices(1, 0),
           <<Lo>> \o order \o <<Eth1, Bond1, BrDash1, Vnet0>>,
           NetNics(ipv4_eth, ipv4_bond, ipv4_br, speed0, speed1, members)) :
        order \in NicOrders,
        ipv4_eth \in Ipv4Choices(<<"1", "0">>),
        ipv4_bond \in Ipv4Choices(<<"2", "0">>),
        ipv4_br \in Ipv4Choices(<<"3", "0">>),
        speed0 \in {1000, 10000},
        speed1 \in {1000, 10000},
        members \in BridgeMembers}

\* every host of NetFacts for the role osds; the monitor role on hosts with
\* and without a subnet
InitNet ==
    \/ InitWith({Join(<<"osds">>)}, {"prod"}, {"container"}, NetFacts)
    \/ InitWith({Join(<<"mons">>)}, {"prod"}, {"container"},
                {Facts(<<4, 2, 1>>, 16384, OsOf("RedHat", 7, 4),
                       PlainDevices(0, 0), PlainInterfaces(sp),
                       PlainNics(sp)) : sp \in {<<>>, <<1000>>}})

-----------------------------------------------------------------------------
(* run_module *)

Summarize ==
    /\ pc = "summarize"
    /\ summary' = summarize(ansible_facts)
    /\ pc' = "construct"
    /\ UNCHANGED <<ansible_facts, role, mode, deployment_type, roles,
                   osd_count, osd_media, net_max, status_msgs, status_checks,
                   next_check, exception, result>>

\* Construct with max() of no subnet taken to be 0
Construct_DefaultZero ==
    /\ pc = "construct"
    /\ osd_count' = OsdCount(summary.hdd, summary.ssd)
    /\ osd_media' = OsdMedia(summary.hdd, summary.ssd)
    /\ roles' = RoleList(role)
    /\ status_msgs' = <<>>
    /\ status_checks' = <<>>
    /\ net_max' = IF DOMAIN summary.network.subnet_details = {} THEN 0
                  ELSE NetMax(summary.network.subnet_details)
    /\ next_check' = 1
    /\ pc' = "analyse"
    /\ UNCHANGED <<ansible_facts, role, mode, deployment_type, summary,
                   exception, result>>

\* Checker(...) followed by the call of analyse()
Construct ==
    /\ pc = "construct"
    /\ DOMAIN summary.network.subnet_details # {}
    /\ osd_count' = OsdCount(summary.hdd, summary.ssd)
    /\ osd_media' = OsdMedia(summary.hdd, summary.ssd)
    /\ roles' = RoleList(role)
    /\ status_msgs' = <<>>
    /\ status_checks' = <<>>
    /\ net_max' = NetMax(summary.network.subnet_details)
    /\ next_check' = 1
    /\ pc' = "analyse"
    /\ UNCHANGED <<ansible_facts, role, mode, deployment_type, summary,
                   exception, result>>

\* Checker(...) when max() is handed an empty list
ConstructRaises ==
    /\ pc = "construct"
    /\ DOMAIN summary.network.subnet_details = {}
    /\ pc' = "failed"
    /\ exception' = "ValueError"
    /\ UNCHANGED <<ansible_facts, role, mode, deployment_type, summary,
                   roles, osd_count, osd_media, net_max, status_msgs,
                   status_checks, next_check, result>>

\* analyse() calls the method `name`, which hands `problems` to _add_problem
RunCheck(name, problems) ==
    /\ pc = "analyse"
    /\ next_check <= Len(check_methods)
    /\ check_methods[next_check] = name
    /\ status_checks' = Append(status_checks, check_names[name])
    /\ status_msgs' = status_msgs \o problems
    /\ next_check' = next_check + 1
    /\ UNCHANGED <<ansible_facts, role, mode, deployment_type, summary,
                   roles, osd_count, osd_media, net_max, pc, exception,
                   result>>

HasRole(r) == \E i \in 1..Len(roles) : roles[i] = r

_check_collocation ==
    RunCheck("_check_collocation",
             collocation_problems(roles, deployment_type, mode))

_check_osd == RunCheck("_check_osd", osd_problems(roles, osd_count))

_check_network ==
    RunCheck("_check_network",
             network_problems(roles, osd_count, osd_media, net_max))

_check_cpu == RunCheck("_check_cpu", cpu_problems(roles, osd_count, summary))

_check_rgw == RunCheck("_check_rgw", rgw_problems(roles, net_max))

_check_ram == RunCheck("_check_ram", ram_problems(roles, osd_count, summary))

_check_mon_freespace ==
    \/ /\ ~HasRole("mons")
       /\ RunCheck("_check_mon_freespace", <<>>)
    \/ /\ HasRole("mons")
       /\ \E var_lib \in StatvfsResults :
              RunCheck("_check_mon_freespace",
                       mon_freespace_problems(mode, var_lib))

\* _check_mon_freespace when os.statvfs raises OSError: nothing catches it
\* in _check_mon_freespace, analyse or run_module
_check_mon_freespace_raises ==
    /\ pc = "analyse"
    /\ next_check <= Len(check_methods)
    /\ check_methods[next_check] = "_check_mon_freespace"
    /\ HasRole("mons")
    /\ status_checks' = Append(status_checks,
                               check_names["_check_mon_freespace"])
    /\ pc' = "failed"
    /\ exception' = "OSError"
    /\ UNCHANGED <<ansible_facts, role, mode, deployment_type, summary,
                   roles, osd_count, osd_media, net_max, status_msgs,
                   next_check, result>>

_check_iscsi == RunCheck("_check_iscsi", iscsi_problems(roles, summary))

\* module.exit_json(...)
ExitJson ==
    /\ pc = "analyse"
    /\ next_check > Len(check_methods)
    /\ result' = [role |-> role,
                  mode |-> mode,
                  deployment_type |-> deployment_type,
                  summary_facts |-> summary,
                  status_msgs |-> SortedMsgs(status_msgs),
                  status |-> StateOf(mode, status_msgs)]
    /\ pc' = "exit"
    /\ UNCHANGED <<ansible_facts, role, mode, deployment_type, summary,
                   roles, osd_count, osd_media, net_max, status_msgs,
                   status_checks, next_check, exception>>

Next ==
    \/ Summarize
    \/ Construct
    \/ ConstructRaises
    \/ _check_collocation
    \/ _check_cpu
    \/ _check_iscsi
    \/ _check_mon_freespace
    \/ _check_mon_freespace_raises
    \/ _check_network
    \/ _check_osd
    \/ _check_ram
    \/ _check_rgw
    \/ ExitJson

Spec == Init /\ [][Next]_vars

SpecBudget == InitBudget /\ [][Next]_vars

SpecOsd == InitOsd /\ [][Next]_vars

SpecIscsi == InitIscsi /\ [][Next]_vars

SpecDisks == InitDisks /\ [][Next]_vars

SpecNet == InitNet /\ [][Next]_vars

-----------------------------------------------------------------------------
(* Properties *)

SeverityCount(msgs, severity) ==
    Cardinality({i \in 1..Len(msgs) : msgs[i].severity = severity})

FindingCount(msgs, severity, text) ==
    Cardinality({i \in 1..Len(msgs) :
                    msgs[i].severity = severity /\ msgs[i].text = text})

TextCount(msgs, text) ==
    Cardinality({i \in 1..Len(msgs) : msgs[i].text = text})

HasRun(checkname) == \E i \in 1..Len(status_checks) : status_checks[i] = checkname

Analysing == pc \in {"analyse", "exit"}

\* C1: during and after the analysis the status is NOTOK exactly when, in
\* dev mode, some finding is critical and, in any other mode, some finding
\* is critical or error; the status handed to exit_json is that status.
C1_StatusFromFindings ==
    Analysing =>
        LET criticals == SeverityCount(status_msgs, "critical")
            errors    == SeverityCount(status_msgs, "error")
            notok     == IF mode = "dev" THEN criticals > 0
                         ELSE criticals + errors > 0
        IN  /\ StateOf(mode, status_msgs) = (IF notok THEN "NOTOK" ELSE "OK")
            /\ pc = "exit" =>
                   result.status = (IF notok THEN "NOTOK" ELSE "OK")

\* C1 witness: a dev run that ended OK with exactly one error, a warning and
\* no critical finding
C1_Witness ==
    /\ pc = "exit"
    /\ mode = "dev"
    /\ SeverityCount(status_msgs, "error") = 1
    /\ SeverityCount(status_msgs, "critical") = 0
    /\ SeverityCount(status_msgs, "warning") > 0
    /\ result.status = "OK"

\* C2 (as claimed): once the collocation check has run there is no
\* collocation finding for one role or a container deployment, exactly one
\* 'too many roles' finding for more than two roles, and for two roles no
\* finding only if the pair is {osds, rgws} and else exactly one finding
\* that names the roles; the severity is warning in dev and error otherwise.
C2_Collocation ==
    (Analysing /\ HasRun("_check_collocation")) =>
        LET severity == IF mode = "dev" THEN "warning" ELSE "error"
            too_many == "Too many roles for RPM deployment mode"
            coexist  == "Requested roles ({}) may not coexist"
            none     == TextCount(status_msgs, too_many) = 0
                        /\ TextCount(status_msgs, coexist) = 0
        IN  IF Len(roles) = 1 \/ deployment_type = "container" THEN none
            ELSE IF Len(roles) > 2
            THEN /\ FindingCount(status_msgs, severity, too_many) = 1
                 /\ TextCount(status_msgs, too_many) = 1
                 /\ TextCount(status_msgs, coexist) = 0
            ELSE IF Range(roles) = {"osds", "rgws"} THEN none
            ELSE /\ FindingCount(status_msgs, severity, coexist) = 1
                 /\ TextCount(status_msgs, coexist) = 1
                 /\ TextCount(status_msgs, too_many) = 0
                 /\ \A i \in 1..Len(status_msgs) :
                        status_msgs[i].text = coexist =>
                            status_msgs[i].arg = roles

NoFreeDisks == summary.hdd_count = 0 /\ summary.ssd_count = 0

OsdFinding == Message("critical", "OSD role without any free disks", <<>>)

\* C3 (as claimed): a complete evaluation of the single role osds on a host
\* without free disks reports exactly the finding critical:OSD role without
\* any free disks, and NOTOK.
C3_OnlyOsdFinding ==
    (pc = "exit" /\ roles = <<"osds">> /\ NoFreeDisks) =>
        /\ result.status_msgs = <<OsdFinding>>
        /\ result.status = "NOTOK"

\* C3 (amended): a complete evaluation of the single role osds on a host
\* without free disks reports NOTOK in either mode and the finding
\* critical:OSD role without any free disks exactly once; the other findings
\* are error:#CPU's too low exactly when the host has less than 2 cores,
\* error:RAM too low exactly when it has less than 4096 MB and the OSD
\* bandwidth warning exactly when the fastest subnet has a negative speed.
C3_OsdFindingAndBudget ==
    (pc = "exit" /\ roles = <<"osds">> /\ NoFreeDisks) =>
        LET msgs == result.status_msgs
            speeds == {summary.network.subnet_details[n].speed :
                          n \in DOMAIN summary.network.subnet_details}
        IN  /\ result.status = "NOTOK"
            /\ FindingCount(msgs, "critical", OsdFinding.text) = 1
            /\ FindingCount(msgs, "error", "#CPU's too low")
                   = (IF summary.cpu_core_count < 2 THEN 1 ELSE 0)
            /\ FindingCount(msgs, "error", "RAM too low")
                   = (IF summary.ram_mb < 4096 THEN 1 ELSE 0)
            /\ FindingCount(msgs, "warning",
                   "Network bandwith low for the number of potential OSDs")
                   = (IF \A sp \in speeds : sp < 0 THEN 1 ELSE 0)
            /\ Len(msgs) = 1 + (IF summary.cpu_core_count < 2 THEN 1 ELSE 0)
                             + (IF summary.ram_mb < 4096 THEN 1 ELSE 0)
                             + (IF \A sp \in speeds : sp < 0 THEN 1 ELSE 0)

\* C3 witness: in dev mode, the OSD finding alone makes the run NOTOK
C3_Witness ==
    /\ pc = "exit"
    /\ mode = "dev"
    /\ roles = <<"osds">>
    /\ NoFreeDisks
    /\ result.status_msgs = <<OsdFinding>>
    /\ result.status = "NOTOK"

\* the number of entries of the role list that are the role r
Occurrences(r) == Cardinality({i \in 1..Len(roles) : roles[i] = r})

\* what the role list costs: osdCount times the cost of an OSD for each
\* osds entry and the flat cost for each other entry
Spent(resource, osdCount) ==
    Occurrences("osds") * osdCount * reqs["osds"][resource]
    + Occurrences("mons") * reqs["mons"][resource]
    + Occurrences("mdss") * reqs["mdss"][resource]
    + Occurrences("rgws") * reqs["rgws"][resource]
    + Occurrences("iscsigws") * reqs["iscsigws"][resource]

MaxOf(a, b) == IF a >= b THEN a ELSE b

\* C4: once the CPU check has run there is exactly one error finding
\* "#CPU's too low" if the cores left after the role list (in half cores)
\* are less than 2 cores, and none otherwise; the same for the RAM check with
\* 4096 MB; both checks have run in every complete analysis.
C4_Budget ==
    Analysing =>
        LET osdCount == MaxOf(summary.hdd_count, summary.ssd_count)
            cpu_left == 2 * summary.cpu_core_count - Spent("cpu", osdCount)
            ram_left == summary.ram_mb - Spent("ram", osdCount)
        IN  /\ TextCount(status_msgs, "#CPU's too low")
                   = (IF HasRun("_check_cpu") /\ cpu_left < 2 * 2
                      THEN 1 ELSE 0)
            /\ TextCount(status_msgs, "RAM too low")
                   = (IF HasRun("_check_ram") /\ ram_left < 4096
                      THEN 1 ELSE 0)
            /\ \A i \in 1..Len(status_msgs) :
                   status_msgs[i].text \in {"#CPU's too low", "RAM too low"}
                       => status_msgs[i].severity = "error"
            /\ pc = "exit" => HasRun("_check_cpu") /\ HasRun("_check_ram")

\* C4 witness: 8 cores and 16384 MB with one free disk and the role osds
\* leave 7.5 cores and 13312 MB, and neither finding is raised
C4_Witness ==
    /\ pc = "exit"
    /\ roles = <<"osds">>
    /\ osd_count = 1
    /\ summary.cpu_core_count = 8
    /\ summary.ram_mb = 16384
    /\ Available(2 * summary.cpu_core_count, roles, osd_count, "cpu") = 15
    /\ Available(summary.ram_mb, roles, osd_count, "ram") = 13312
    /\ TextCount(status_msgs, "#CPU's too low") = 0
    /\ TextCount(status_msgs, "RAM too low") = 0

OsdNetworkText == "Network bandwith low for the number of potential OSDs"

\* C5: once the OSD network check has run there is exactly one warning
\* finding if the osds role is requested and the fastest subnet is slower
\* than osdCount times the bandwidth of the media (1000 for rotating disks,
\* chosen only when there are more free rotating than free flash disks, and
\* 5000 for flash), and none otherwise.
C5_OsdNetwork ==
    Analysing =>
        LET h == summary.hdd_count
            f == summary.ssd_count
            osdCount  == MaxOf(h, f)
            bandwidth == IF h > f THEN 1000 ELSE 5000
            details   == summary.network.subnet_details
            low == \A n \in DOMAIN details :
                       details[n].speed < osdCount * bandwidth
        IN  /\ TextCount(status_msgs, OsdNetworkText)
                   = (IF HasRun("_check_network") /\ Occurrences("osds") > 0
                         /\ low
                      THEN 1 ELSE 0)
            /\ FindingCount(status_msgs, "warning", OsdNetworkText)
                   = TextCount(status_msgs, OsdNetworkText)

\* C5 witness: as many free rotating as free flash disks on a 1000 network:
\* the finding is raised, because the media is flash
C5_Witness ==
    /\ pc = "exit"
    /\ summary.hdd_count = 1
    /\ summary.ssd_count = 1
    /\ net_max = 1000
    /\ osd_media = "ssd"
    /\ FindingCount(status_msgs, "warning", OsdNetworkText) = 1

IscsiText == "incompatible kernel version for iSCSI"

\* the entry of OsTable the host was built from
HostOs ==
    CHOOSE os \in OsTable : /\ os.distribution = summary.distribution
                            /\ os.version = summary.distribution_version
                            /\ os.kernel = summary.kernel

Keys(free) == {free[i][1] : i \in 1..Len(free)}

\* an exclusion of the Disk Classifier applies to the disk d
Excluded(d) ==
    LET disk == ansible_facts.devices[d]
    IN  \/ disk.removable = "1"
        \/ (Len(d) >= 3 /\ d[1] = "d" /\ d[2] = "m" /\ d[3] = "-")
        \/ disk.partitions # {}
        \/ disk.holders # <<>>
        \/ disk.links.masters # <<>>
        \/ /\ Len(disk.host) >= 3
           /\ disk.host[1] \in {"u", "U"}
           /\ disk.host[2] \in {"s", "S"}
           /\ disk.host[3] \in {"b", "B"}

\* C7: a disk is in the free rotating (free flash) set exactly when its
\* rotational flag is 1 (0) and no exclusion applies; a disk with partitions
\* is in neither set and no disk is in both.
C7_FreeDisks ==
    pc # "summarize" =>
        \A d \in DOMAIN ansible_facts.devices :
            LET disk == ansible_facts.devices[d]
            IN  /\ d \in Keys(summary.hdd)
                       <=> (disk.rotational = <<"1">> /\ ~Excluded(d))
                /\ d \in Keys(summary.ssd)
                       <=> (disk.rotational = <<"0">> /\ ~Excluded(d))
                /\ disk.partitions # {}
                       => d \notin Keys(summary.hdd) \cup Keys(summary.ssd)
                /\ ~(d \in Keys(summary.hdd) /\ d \in Keys(summary.ssd))

\* C7 witness: a rotating disk left out only for its partition, next to a
\* flash disk that is free
C7_Witness ==
    /\ pc = "construct"
    /\ \E d \in DOMAIN ansible_facts.devices :
           LET disk == ansible_facts.devices[d]
           IN  /\ disk.partitions # {}
               /\ disk.rotational = <<"1">>
               /\ disk.removable = "0"
               /\ disk.holders = <<>>
               /\ disk.links.masters = <<>>
               /\ disk.host = Sata
               /\ d \notin Keys(summary.hdd)
    /\ Keys(summary.ssd) # {}

\* the messages of msgs with, and without, the text of the free space check
FreespaceText == "Freespace on /var/lib is too low (<{}GB)"

FreespaceMsgs(msgs) == SelectSeq(msgs, LAMBDA m : m.text = FreespaceText)

\* the findings of the eight checks run in the reverse of the order of
\* analyse(), with the free space finding of this run
ReverseOrderMsgs ==
    rgw_problems(roles, net_max)
    \o ram_problems(roles, osd_count, summary)
    \o osd_problems(roles, osd_count)
    \o network_problems(roles, osd_count, osd_media, net_max)
    \o FreespaceMsgs(status_msgs)
    \o iscsi_problems(roles, summary)
    \o cpu_problems(roles, osd_count, summary)
    \o collocation_problems(roles, deployment_type, mode)

\* C8 (as claimed): an analysis that has ended has run each of the eight
\* checks exactly once, and the sorted findings and the status it reports
\* are those of the checks run in another order.
C8_EveryCheckOnce ==
    (pc \in {"exit", "failed"} /\ next_check > 0) =>
        /\ \A m \in Range(check_methods) :
               Cardinality({i \in 1..Len(status_checks) :
                               status_checks[i] = check_names[m]}) = 1
        /\ Len(status_checks) = Len(check_methods)
        /\ pc = "exit" =>
               /\ result.status_msgs = SortedMsgs(ReverseOrderMsgs)
               /\ result.status = StateOf(mode, ReverseOrderMsgs)

\* C9 (as claimed): when the free space query of the monitor check fails
\* the run goes on: it is not ended by the failure, and it ends only with
\* all eight checks run and a verdict.
C9_FailureLocalized ==
    exception = "OSError" =>
        /\ pc \in {"analyse", "exit"}
        /\ pc = "exit" => Len(status_checks) = Len(check_methods)

NoSubnets == DOMAIN summary.network.subnet_details = {}

\* C10: with a summary that has no subnet, run_module gets no further than
\* the construction of the Checker, which raises ValueError: no check is
\* recorded, there is no finding and nothing is handed to exit_json.
C10_NoSubnetsFails ==
    (pc # "summarize" /\ NoSubnets) =>
        /\ pc \in {"construct", "failed"}
        /\ pc = "failed" => exception = "ValueError"
        /\ next_check = 0
        /\ status_checks = <<>>
        /\ status_msgs = <<>>

\* C10 witness: the construction has failed for a role list without a role
\* that uses the network bandwidth
C10_Witness ==
    /\ pc = "failed"
    /\ exception = "ValueError"
    /\ NoSubnets
    /\ RoleList(role) = <<"mons", "mdss">>
    /\ status_checks = <<>>

-----------------------------------------------------------------------------
(* Properties of the Network Topology Analyzer *)

Nics == ansible_facts.nics

\* the prefix length of the netmasks of the hosts
CidrOf(netmask) ==
    IF netmask = Mask24 THEN 24 ELSE IF netmask = Mask22 THEN 22 ELSE 8

\* the interface n is processed: it is not the loopback, its facts are
\* there, its type is one of the four and it has an ipv4 entry
Eligible(n) ==
    /\ ~(Len(n) >= 2 /\ n[1] = "l" /\ n[2] = "o")
    /\ n \in DOMAIN Nics
    /\ Nics[n].type \in {"ether", "bonding", "bridge", "infiniband"}
    /\ Nics[n].ipv4 # <<>>

SubnetOf(n) == <<Nics[n].ipv4[1].network, CidrOf(Nics[n].ipv4[1].netmask)>>

\* the eligible interface of the subnet that is listed last
LastOn(subnet) ==
    LET listed == ansible_facts.interfaces
        on(i)  == Eligible(listed[i]) /\ SubnetOf(listed[i]) = subnet
    IN  listed[CHOOSE i \in 1..Len(listed) :
                   on(i) /\ \A j \in (i + 1)..Len(listed) : ~on(j)]

\* the facts of the members of the bridge n that are not guest taps
MemberFacts(n) ==
    LET kept == SelectSeq(Nics[n].interfaces,
                    LAMBDA m : ~(Len(m) >= 4
                                 /\ SubSeq(m, 1, 4) = SubSeq(Vnet0, 1, 4)))
    IN  [i \in 1..Len(kept) |-> Nics[Replace(kept[i], "-", "_")]]

\* the bridges that wrote the entry of their subnet
WritingBridges ==
    {n \in DOMAIN Nics :
        Eligible(n) /\ Nics[n].type = "bridge" /\ LastOn(SubnetOf(n)) = n}

\* C11 (as claimed): the entry a bridge writes for its subnet has as count
\* the sum over the members that are not guest taps of 1 for an ethernet
\* member, the number of slaves for a bond and the number of members for a
\* nested bridge, and as speed the sum of the speed of each ethernet member
\* and of each bond, a nested bridge adding nothing.
C11_BridgeSums ==
    pc # "summarize" =>
        \A n \in WritingBridges :
            LET members == MemberFacts(n)
                entry   == summary.network.subnet_details[SubnetOf(n)]
                count(m) == IF m.type = "ether" THEN 1
                            ELSE IF m.type = "bonding" THEN Len(m.slaves)
                            ELSE IF m.type = "bridge" THEN Len(m.interfaces)
                            ELSE 0
                speed(m) == IF m.type \in {"ether", "bonding"}
                            THEN m.speed[1] ELSE 0
            IN  /\ entry.count
                       = SumSeq([i \in 1..Len(members) |-> count(members[i])])
                /\ entry.speed
                       = SumSeq([i \in 1..Len(members) |-> speed(members[i])])

\* the subnets of the eligible interfaces
Discovered == {SubnetOf(n) : n \in {x \in DOMAIN Nics : Eligible(x)}}

\* the entry derived from the interface n alone
EntryOf(n) ==
    LET agg == NicAggregate(ansible_facts, n)
    IN  [devices |-> agg.devs,
         speed   |-> agg.speed,
         count   |-> agg.count,
         desc    |-> NicDesc(SubnetOf(n), agg.speed, agg.count),
         addr    |-> Nics[n].ipv4[1].address]

\* C12: once the interfaces are processed, every discovered subnet is once
\* in the subnet list and has one details entry, the subnets of the list are
\* the keys of the details, and the entry of a subnet is the one derived from
\* the eligible interface of that subnet processed last; the greatest
\* bandwidth of the Checker is the greatest speed among those last
\* interfaces.
C12_SubnetsKeyedOnce ==
    pc # "summarize" =>
        LET network == summary.network
        IN  /\ \A i, j \in 1..Len(network.subnets) :
                   network.subnets[i] = network.subnets[j] => i = j
            /\ Range(network.subnets) = Discovered
            /\ DOMAIN network.subnet_details = Discovered
            /\ \A k \in Discovered :
                   network.subnet_details[k] = EntryOf(LastOn(k))
            /\ Analysing =>
                   /\ \E k \in Discovered : net_max = EntryOf(LastOn(k)).speed
                   /\ \A k \in Discovered : net_max >= EntryOf(LastOn(k)).speed

\* an analysis of a host where an interface processed earlier on a shared
\* subnet is faster than every interface processed last on its subnet
C12_Witness ==
    /\ Analysing
    /\ \E n \in DOMAIN Nics :
           /\ Eligible(n)
           /\ LastOn(SubnetOf(n)) # n
           /\ EntryOf(n).speed > net_max
           /\ summary.network.subnet_details[SubnetOf(n)]
                  = EntryOf(LastOn(SubnetOf(n)))

-----------------------------------------------------------------------------
(* Properties of the mode *)

\* the findings of a complete analysis of this host, role list and
\* deployment type in the mode m when os.statvfs('/var/lib') gives var_lib
Evaluation(m, var_lib) ==
    collocation_problems(roles, deployment_type, m)
    \o cpu_problems(roles, osd_count, summary)
    \o iscsi_problems(roles, summary)
    \o (IF HasRole("mons") THEN mon_freespace_problems(m, var_lib) ELSE <<>>)
    \o network_problems(roles, osd_count, osd_media, net_max)
    \o osd_problems(roles, osd_count)
    \o ram_problems(roles, osd_count, summary)
    \o rgw_problems(roles, net_max)

\* the free space results under which this run found what it found
FreeSpaceOfRun ==
    {var_lib \in StatvfsResults : status_msgs = Evaluation(mode, var_lib)}

CriticalOf(msgs) == {m \in Range(msgs) : m.severity = "critical"}

\* C13: a run that has handed over its verdict is the evaluation in its mode
\* under some free space, and under each such free space the evaluations of
\* the same host, roles and deployment type in the two modes are such that
\* the dev one is NOTOK only if the prod one is NOTOK and every critical
\* finding of the dev one is a finding of the prod one.
C13_DevNeverStricter ==
    pc = "exit" =>
        /\ FreeSpaceOfRun # {}
        /\ \A var_lib \in FreeSpaceOfRun :
               LET dev  == Evaluation("dev", var_lib)
                   prod == Evaluation("prod", var_lib)
               IN  /\ result.status
                          = StateOf(mode, Evaluation(mode, var_lib))
                   /\ StateOf("dev", dev) = "NOTOK"
                          => StateOf("prod", prod) = "NOTOK"
                   /\ StateOf("prod", prod) = "OK"
                          => StateOf("dev", dev) = "OK"
                   /\ CriticalOf(dev) \subseteq Range(prod)

\* a dev run that ended NOTOK with a critical finding and with a warning for
\* the free space, whose prod evaluation has other findings
C13_Witness ==
    /\ pc = "exit"
    /\ mode = "dev"
    /\ result.status = "NOTOK"
    /\ CriticalOf(status_msgs) # {}
    /\ \E i \in 1..Len(status_msgs) :
           /\ status_msgs[i].text = FreespaceText
           /\ status_msgs[i].severity = "warning"
    /\ \E var_lib \in FreeSpaceOfRun :
           Evaluation("prod", var_lib) # Evaluation("dev", var_lib)

=============================================================================
